---- MODULE Spec2Model ----
(***************************************************************************)
(* Model of src/src/analysis_helpers.py: the value-count aggregator        *)
(* (get_value_counts), the grouped bar renderer (side_by_side_bar_plot)    *)
(* and the two-panel orchestrator (distribution_plots).                    *)
(*                                                                         *)
(* Conventions.                                                            *)
(*  - A Python optional is a sequence of length at most one: <<>> is None  *)
(*    and <<v>> is the value v.  The same shape is used for a cell of a    *)
(*    data frame that may be missing (NaN) after the outer merge.          *)
(*  - A proportion is the exact quotient [n |-> numerator, d |-> divisor]; *)
(*    the float 0/0 (NaN) is the quotient whose divisor is 0.              *)
(*  - Lengths on the x axis are integers: bar_width and gap are in         *)
(*    hundredths of an axis unit, bar centres in two-hundredths, so that   *)
(*    i - bar_width/2 - gap/2 is 200*i - bar_width - gap.                  *)
(*  - A rounded percentage is an integer number of tenths of a percent.    *)
(***************************************************************************)
EXTENDS Integers, Sequences, FiniteSets

VARIABLES
    sample_a,      \* the caller's first sample (a Series of categories)
    sample_b,      \* the caller's second sample
    dp_args,       \* the arguments the caller passes to distribution_plots
    bp_args,       \* the arguments the caller passes to side_by_side_bar_plot
    gvc_log,       \* the caller's get_value_counts calls: the first and the latest
    num_figures,   \* pyplot: number of figures created by the three functions
    num_shown,     \* pyplot: number of figures displayed by the three functions
    bp_result,     \* outcome of the last side_by_side_bar_plot call
    dp_result      \* outcome of the last distribution_plots call

vars == <<sample_a, sample_b, dp_args, bp_args, gvc_log,
          num_figures, num_shown, bp_result, dp_result>>

----------------------------------------------------------------------------
(* Bounds of the model *)

MaxLen == 3
MaxBars == 3
MaxFigures == 2

(* Defaults of the signatures *)
DefaultBarWidth == 35
DefaultGap == 0
PercentScale == 100
RoundDigits == 1

Categories == {"x", "y"}
\* the lexicographic order of the category labels
CatOrder == <<"x", "y">>

RECURSIVE SeqsUpTo(_, _)
SeqsUpTo(S, n) ==
    IF n = 0 THEN {<<>>}
    ELSE LET shorter == SeqsUpTo(S, n - 1)
         IN  shorter \cup
             {Append(s, e) : s \in {t \in shorter : Len(t) = n - 1}, e \in S}

Samples == SeqsUpTo(Categories, MaxLen)

None == <<>>
Some(v) == <<v>>
NaN == <<>>

----------------------------------------------------------------------------
(* get_value_counts *)

\* Series.value_counts(): tally of the occurrences, in order of first occurrence ...
RECURSIVE Tally(_)
Tally(s) ==
    IF s = <<>> THEN <<>>
    ELSE LET t == Tally(SubSeq(s, 1, Len(s) - 1))
             c == s[Len(s)]
         IN  IF \E i \in DOMAIN t : t[i].category = c
             THEN [i \in DOMAIN t |->
                      IF t[i].category = c
                      THEN [t[i] EXCEPT !.count = @ + 1] ELSE t[i]]
             ELSE Append(t, [category |-> c, count |-> 1])

\* ... sorted by descending count, equal counts keeping their order
RECURSIVE SortDescending(_)
SortDescending(t) ==
    IF t = <<>> THEN <<>>
    ELSE LET rest == SortDescending(SubSeq(t, 1, Len(t) - 1))
             e == t[Len(t)]
             k == Cardinality({i \in DOMAIN rest : rest[i].count >= e.count})
         IN  SubSeq(rest, 1, k) \o <<e>> \o SubSeq(rest, k + 1, Len(rest))

\* pd.DataFrame(sample.value_counts()).reset_index(names="category"):
\* a frame with the columns category and count
ValueCounts(sample) == SortDescending(Tally(sample))

Keys(frame) == {frame[i].category : i \in DOMAIN frame}

\* the cell of column count in the row of category c, NaN when there is no such row
Lookup(frame, c) ==
    IF c \in Keys(frame)
    THEN Some((CHOOSE r \in {frame[i] : i \in DOMAIN frame} : r.category = c).count)
    ELSE NaN

\* how="left": only the keys of the left frame, in the left frame's order
MergeLeft(left, right) ==
    [i \in DOMAIN left |->
        [category |-> left[i].category,
         count_x |-> Some(left[i].count),
         count_y |-> Lookup(right, left[i].category)]]

\* left.merge(right, on="category", how="outer"): the union of the keys, sorted;
\* the count columns are suffixed _x and _y, a missing side is NaN
MergeOuter(left, right) ==
    LET InUnion(c) == c \in Keys(left) \cup Keys(right)
        keys == SelectSeq(CatOrder, InUnion)
    IN  [i \in DOMAIN keys |->
            [category |-> keys[i],
             count_x |-> Lookup(left, keys[i]),
             count_y |-> Lookup(right, keys[i])]]

\* DataFrame.fillna(value)
FillNa(frame, value) ==
    [i \in DOMAIN frame |->
        [category |-> frame[i].category,
         count_x |-> IF frame[i].count_x = NaN THEN value ELSE frame[i].count_x[1],
         count_y |-> IF frame[i].count_y = NaN THEN value ELSE frame[i].count_y[1]]]

RECURSIVE ColumnSum(_, _)
ColumnSum(frame, col) ==
    IF frame = <<>> THEN 0
    ELSE ColumnSum(SubSeq(frame, 1, Len(frame) - 1), col) + frame[Len(frame)][col]

\* float division: the exact quotient, NaN (divisor 0) for 0/0
Divide(n, d) == [n |-> n, d |-> d]
IsNaN(p) == p.d = 0

\* the divisor is the number of rows of the frame
ProportionsOverRows(frame) ==
    [i \in DOMAIN frame |->
        [category |-> frame[i].category,
         count_x |-> frame[i].count_x,
         count_y |-> frame[i].count_y,
         proportion_x |-> Divide(frame[i].count_x, Len(frame)),
         proportion_y |-> Divide(frame[i].count_y, Len(frame))]]

\* the divisor is the joint total of both samples
ProportionsJoint(frame) ==
    LET total == ColumnSum(frame, "count_x") + ColumnSum(frame, "count_y")
    IN  [i \in DOMAIN frame |->
            [category |-> frame[i].category,
             count_x |-> frame[i].count_x,
             count_y |-> frame[i].count_y,
             proportion_x |-> Divide(frame[i].count_x, total),
             proportion_y |-> Divide(frame[i].count_y, total)]]

\* df["proportion_x"] = df.count_x / df.count_x.sum(), and the same for _y
Proportions(frame) ==
    [i \in DOMAIN frame |->
        [category |-> frame[i].category,
         count_x |-> frame[i].count_x,
         count_y |-> frame[i].count_y,
         proportion_x |-> Divide(frame[i].count_x, ColumnSum(frame, "count_x")),
         proportion_y |-> Divide(frame[i].count_y, ColumnSum(frame, "count_y"))]]

\* a module-level accumulator: the counts of the caller's previous call are added
GetValueCountsAccumulating(a, b) ==
    LET fresh == FillNa(MergeOuter(ValueCounts(a), ValueCounts(b)), 0)
        old == IF gvc_log = <<>> THEN <<>> ELSE gvc_log[Len(gvc_log)].rows
        Old(c, col) ==
            IF \E i \in DOMAIN old : old[i].category = c
            THEN (CHOOSE r \in {old[i] : i \in DOMAIN old} : r.category = c)[col]
            ELSE 0
    IN  Proportions(
            [i \in DOMAIN fresh |->
                [category |-> fresh[i].category,
                 count_x |-> fresh[i].count_x + Old(fresh[i].category, "count_x"),
                 count_y |-> fresh[i].count_y + Old(fresh[i].category, "count_y")]])

GetValueCounts(a, b) ==
    LET sample_a_counts == ValueCounts(a)
        sample_b_counts == ValueCounts(b)
        merged == MergeOuter(sample_a_counts, sample_b_counts)
        df_sample_counts == FillNa(merged, 0)
    IN  Proportions(df_sample_counts)

Column(frame, col) == [i \in DOMAIN frame |-> frame[i][col]]

----------------------------------------------------------------------------
(* side_by_side_bar_plot *)

\* Python truthiness of an optional string: None and "" are falsy
Truthy(label) == label # None /\ label[1] # ""

\* a matplotlib Axes; figure names who created the figure it belongs to
EmptyAxes(fig) ==
    [figure |-> fig, bars |-> <<>>, containers |-> <<>>, texts |-> <<>>,
     xlabel |-> None, ylabel |-> None, title |-> None,
     xticks |-> <<>>, xticklabels |-> <<>>, legend |-> None]

\* np.broadcast_arrays on two one-dimensional arrays: the common length, -1 when
\* the shapes cannot be broadcast (ValueError)
BroadcastLen(n, m) ==
    IF n = m THEN n ELSE IF n = 1 THEN m ELSE IF m = 1 THEN n ELSE -1

Broadcast(seq, n) == IF Len(seq) = n THEN seq ELSE [i \in 1..n |-> seq[1]]

\* Axes.bar(x, height, width, label=label): one bar per element of the broadcast
\* arrays, gathered in a new container that carries the label
AxBar(ax, x, height, width, label) ==
    LET n == BroadcastLen(Len(x), Len(height))
        c == Len(ax.containers) + 1
    IN  IF n < 0
        THEN [ok |-> FALSE, ax |-> ax]
        ELSE [ok |-> TRUE,
              ax |-> [ax EXCEPT
                  !.bars = @ \o [i \in 1..n |->
                                   [x |-> Broadcast(x, n)[i],
                                    height |-> Broadcast(height, n)[i],
                                    width |-> width,
                                    container |-> c]],
                  !.containers = Append(@, [label |-> label, size |-> n])]]

\* Axes.bar_label(container, padding=1, fontsize=fontsize): one text per bar
AxBarLabel(ax, c, fontsize) ==
    LET mine == SelectSeq(ax.bars, LAMBDA b : b.container = c)
    IN  [ax EXCEPT !.texts = @ \o [i \in DOMAIN mine |->
                                      [x |-> mine[i].x, text |-> mine[i].height,
                                       padding |-> 1, fontsize |-> fontsize]]]

\* Axes.legend(): one entry per container whose label is not empty
AxLegend(ax) ==
    LET named == SelectSeq(ax.containers, LAMBDA k : Truthy(k.label))
    IN  [ax EXCEPT !.legend = Some([i \in DOMAIN named |-> named[i].label[1]])]

\* x_positions = np.arange(len(x_vals))
XPositions(x_vals) == [i \in 1..Len(x_vals) |-> i - 1]

\* the gap is added to the centre of the left bar instead of subtracted
LeftCentresGapSign(x_positions, bar_width, gap) ==
    [i \in DOMAIN x_positions |-> 200 * x_positions[i] - bar_width + gap]

\* x_positions - bar_width/2 - gap/2
LeftCentres(x_positions, bar_width, gap) ==
    [i \in DOMAIN x_positions |-> 200 * x_positions[i] - bar_width - gap]

\* x_positions + bar_width/2 + gap/2
RightCentres(x_positions, bar_width, gap) ==
    [i \in DOMAIN x_positions |-> 200 * x_positions[i] + bar_width + gap]

\* the legend is shown only when both labels are given
ShowLegendBoth(left_label, right_label) == Truthy(left_label) /\ Truthy(right_label)

\* if y_vals_left_legend_label or y_vals_right_legend_label
ShowLegend(left_label, right_label) == Truthy(left_label) \/ Truthy(right_label)

\* a figure is created whether or not a surface is supplied
SurfaceAlwaysNew(ax) == [created |-> 1, ax |-> EmptyAxes("side_by_side_bar_plot")]

\* if ax is None: fig, ax = plt.subplots(1, 1)
Surface(ax) ==
    IF ax = None
    THEN [created |-> 1, ax |-> EmptyAxes("side_by_side_bar_plot")]
    ELSE [created |-> 0, ax |-> ax[1]]

\* The whole call.  status is "ok" when the call returns and "error" when it
\* raises; ax is the surface as the call leaves it, created the number of
\* figures the call created and shown the number it displayed (plt.show() is
\* commented out).
SideBySideBarPlot(args) ==
    LET surface == Surface(args.ax)
        x_positions == XPositions(args.x_vals)
        bars_left == AxBar(surface.ax,
                           LeftCentres(x_positions, args.bar_width, args.gap),
                           args.y_vals_left, args.bar_width,
                           args.y_vals_left_legend_label)
        bars_right == AxBar(bars_left.ax,
                            RightCentres(x_positions, args.bar_width, args.gap),
                            args.y_vals_right, args.bar_width,
                            args.y_vals_right_legend_label)
        labelled == IF args.include_bar_value_labels
                    THEN AxBarLabel(AxBarLabel(bars_right.ax, 1,
                                               args.bar_label_font_size),
                                    2, args.bar_label_font_size)
                    ELSE bars_right.ax
        decorated == [labelled EXCEPT !.xlabel = args.x_axis_label,
                                      !.ylabel = args.y_axis_label,
                                      !.title = args.title,
                                      !.xticks = x_positions,
                                      !.xticklabels = args.x_vals]
        done == IF ShowLegend(args.y_vals_left_legend_label,
                              args.y_vals_right_legend_label)
                THEN AxLegend(decorated) ELSE decorated
    IN  IF ~bars_left.ok
        THEN [status |-> "error", ax |-> surface.ax,
              created |-> surface.created, shown |-> 0]
        ELSE IF ~bars_right.ok
        THEN [status |-> "error", ax |-> bars_left.ax,
              created |-> surface.created, shown |-> 0]
        ELSE [status |-> "ok", ax |-> done,
              created |-> surface.created, shown |-> 0]

----------------------------------------------------------------------------
(* distribution_plots *)

\* round half to even of num/den, den > 0
RoundHalfEven(num, den) ==
    LET q == num \div den
        r == num % den
    IN  IF 2 * r < den THEN q
        ELSE IF 2 * r > den THEN q + 1
        ELSE IF q % 2 = 0 THEN q ELSE q + 1

Pow10(k) == IF k = 0 THEN 1 ELSE IF k = 1 THEN 10 ELSE 100

\* rounded to whole percents
RoundPercentWhole(p) ==
    IF IsNaN(p) THEN NaN
    ELSE Pow10(RoundDigits) * RoundHalfEven(PercentScale * p.n, p.d)

\* round(proportion * 100, 1), in tenths of a percent; NaN stays NaN
RoundPercent(p) ==
    IF IsNaN(p) THEN NaN
    ELSE RoundHalfEven(PercentScale * Pow10(RoundDigits) * p.n, p.d)

PanelArgs(args, categories, left, right, ax, name) ==
    [x_vals |-> categories, y_vals_left |-> left, y_vals_right |-> right,
     ax |-> Some(ax), bar_width |-> args.bar_width, gap |-> args.gap,
     include_bar_value_labels |-> args.include_bar_value_labels,
     bar_label_font_size |-> args.bar_label_font_size,
     title |-> Some(name), x_axis_label |-> Some(args.x_axis_label),
     y_axis_label |-> Some(name),
     y_vals_left_legend_label |-> Some(args.sample_a_label),
     y_vals_right_legend_label |-> Some(args.sample_b_label)]

\* The whole call: value_counts is the local table when the call ends, panels
\* the two axes of the figure made by plt.subplots(1, 2).
DistributionPlots(a, b, args) ==
    LET value_counts == GetValueCounts(a, b)
        categories == Column(value_counts, "category")
        ax == <<EmptyAxes("distribution_plots"), EmptyAxes("distribution_plots")>>
        counts == SideBySideBarPlot(
                      PanelArgs(args, categories,
                                Column(value_counts, "count_x"),
                                Column(value_counts, "count_y"),
                                ax[1], "Count"))
        pct_left == [i \in DOMAIN value_counts |->
                        RoundPercent(value_counts[i].proportion_x)]
        pct_right == [i \in DOMAIN value_counts |->
                         RoundPercent(value_counts[i].proportion_y)]
        percentages == SideBySideBarPlot(
                           PanelArgs(args, categories, pct_left, pct_right,
                                     ax[2], "Percentage"))
    IN  IF counts.status = "error"
        THEN [status |-> "error", value_counts |-> value_counts,
              suptitle |-> Some(args.title), panels |-> <<counts.ax, ax[2]>>,
              created |-> 1, shown |-> 0]
        ELSE [status |-> percentages.status, value_counts |-> value_counts,
              suptitle |-> Some(args.title),
              panels |-> <<counts.ax, percentages.ax>>,
              created |-> 1 + counts.created + percentages.created,
              shown |-> counts.shown + percentages.shown]

----------------------------------------------------------------------------
(* The callers' inputs *)

\* labels and heights are told apart by their position, lengths vary freely
TickLabels == <<"a", "b", "c", "d", "e">>
XVals == {SubSeq(TickLabels, 1, n) : n \in 0..MaxBars}
LeftHeights == {SubSeq(<<1, 2, 3, 4, 5>>, 1, n) : n \in 0..MaxBars}
RightHeights == {SubSeq(<<6, 7, 8, 9, 10>>, 1, n) : n \in 0..MaxBars}
BarWidths == {DefaultBarWidth, 50}
Gaps == {DefaultGap, 10}
LeftLegendLabels == {None, Some(""), Some("A")}
RightLegendLabels == {None, Some(""), Some("B")}
\* a surface the caller created for this call, with nothing drawn on it yet
CallerAxes == EmptyAxes("caller")

BpArgs ==
    [x_vals : XVals, y_vals_left : LeftHeights, y_vals_right : RightHeights,
     ax : {None, Some(CallerAxes)}, bar_width : BarWidths, gap : Gaps,
     include_bar_value_labels : BOOLEAN, bar_label_font_size : {7},
     title : {None}, x_axis_label : {None}, y_axis_label : {None},
     y_vals_left_legend_label : LeftLegendLabels,
     y_vals_right_legend_label : RightLegendLabels]

\* side_by_side_bar_plot(["a", "b"], [1, 2], [2, 1]) with the defaults
BpDefaultCall ==
    [x_vals |-> <<"a", "b">>, y_vals_left |-> <<1, 2>>, y_vals_right |-> <<2, 1>>,
     ax |-> None, bar_width |-> DefaultBarWidth, gap |-> DefaultGap,
     include_bar_value_labels |-> FALSE, bar_label_font_size |-> 7,
     title |-> None, x_axis_label |-> None, y_axis_label |-> None,
     y_vals_left_legend_label |-> None, y_vals_right_legend_label |-> None]

DpArgs ==
    [sample_a_label : {"A", ""}, sample_b_label : {"B"},
     title : {"T"}, x_axis_label : {"X"},
     bar_width : {DefaultBarWidth}, gap : {DefaultGap},
     include_bar_value_labels : {TRUE}, bar_label_font_size : {7}]

DpDefaultCall ==
    [sample_a_label |-> "A", sample_b_label |-> "B", title |-> "T",
     x_axis_label |-> "X", bar_width |-> DefaultBarWidth, gap |-> DefaultGap,
     include_bar_value_labels |-> TRUE, bar_label_font_size |-> 7]

NoBpResult == [status |-> "none", ax |-> EmptyAxes("none"), created |-> 0, shown |-> 0]
NoDpResult ==
    [status |-> "none", value_counts |-> <<>>, suptitle |-> None,
     panels |-> <<>>, created |-> 0, shown |-> 0]

----------------------------------------------------------------------------
(* The state machine *)

Untouched ==
    /\ gvc_log = <<>>
    /\ num_figures = 0
    /\ num_shown = 0
    /\ bp_result = NoBpResult
    /\ dp_result = NoDpResult

\* any two samples, any distribution_plots arguments
Init ==
    /\ sample_a \in Samples
    /\ sample_b \in Samples
    /\ dp_args \in DpArgs
    /\ bp_args = BpDefaultCall
    /\ Untouched

\* any side_by_side_bar_plot arguments
InitPlot ==
    /\ sample_a = <<"x", "x", "y">>
    /\ sample_b = <<"y", "y", "y">>
    /\ dp_args = DpDefaultCall
    /\ bp_args \in BpArgs
    /\ Untouched

\* table = get_value_counts(sample_a, sample_b); the entry keeps the arguments
\* as passed, the table returned and whether a figure existed at the call
GetValueCountsCall ==
    LET entry == [sample_a |-> sample_a, sample_b |-> sample_b,
                  rows |-> GetValueCounts(sample_a, sample_b),
                  plotted |-> num_figures > 0]
    IN  /\ gvc_log' = IF gvc_log = <<>> THEN <<entry>> ELSE <<gvc_log[1], entry>>
        /\ UNCHANGED <<sample_a, sample_b, dp_args, bp_args,
                       num_figures, num_shown, bp_result, dp_result>>

\* side_by_side_bar_plot(**bp_args)
SideBySideBarPlotCall ==
    LET r == SideBySideBarPlot(bp_args)
    IN  /\ num_figures + Surface(bp_args.ax).created <= MaxFigures
        /\ bp_result' = r
        /\ num_figures' = num_figures + r.created
        /\ num_shown' = num_shown + r.shown
        /\ UNCHANGED <<sample_a, sample_b, dp_args, bp_args, gvc_log, dp_result>>

\* distribution_plots(sample_a, sample_b, **dp_args)
DistributionPlotsCall ==
    LET r == DistributionPlots(sample_a, sample_b, dp_args)
    IN  /\ num_figures < MaxFigures
        /\ dp_result' = r
        /\ num_figures' = num_figures + r.created
        /\ num_shown' = num_shown + r.shown
        /\ UNCHANGED <<sample_a, sample_b, dp_args, bp_args, gvc_log, bp_result>>

Next == GetValueCountsCall \/ SideBySideBarPlotCall \/ DistributionPlotsCall

NextTable == GetValueCountsCall

NextPlot == SideBySideBarPlotCall

Spec == Init /\ [][Next]_vars

SpecTable == Init /\ [][NextTable]_vars

SpecPlot == InitPlot /\ [][NextPlot]_vars

----------------------------------------------------------------------------
(* Properties of get_value_counts, checked under Spec and SpecTable *)

Range(s) == {s[i] : i \in DOMAIN s}
Occurrences(c, s) == Cardinality({i \in DOMAIN s : s[i] = c})
RowSet(rows) == {rows[i] : i \in DOMAIN rows}
Abs(k) == IF k < 0 THEN -k ELSE k

\* equality of two defined quotients
SameQuotient(p, q) == p.d # 0 /\ q.d # 0 /\ p.n * q.d = q.n * p.d

RECURSIVE QuotientSum(_)
QuotientSum(ps) ==
    IF ps = <<>> THEN [n |-> 0, d |-> 1]
    ELSE LET rest == QuotientSum(SubSeq(ps, 1, Len(ps) - 1))
             p == ps[Len(ps)]
         IN  [n |-> rest.n * p.d + p.n * rest.d, d |-> rest.d * p.d]

\* C1: every table has exactly one row per distinct category of A or B, none
\* missing, duplicated or foreign; count_x is the number of occurrences of the
\* category in A and count_y the number in B, 0 when the category is absent.
C1_OneRowPerCategoryWithCounts ==
    \A k \in DOMAIN gvc_log :
        LET e == gvc_log[k]
            rows == e.rows
        IN  /\ {rows[i].category : i \in DOMAIN rows}
                  = Range(e.sample_a) \cup Range(e.sample_b)
            /\ \A i, j \in DOMAIN rows :
                  rows[i].category = rows[j].category => i = j
            /\ \A i \in DOMAIN rows :
                  /\ rows[i].count_x = Occurrences(rows[i].category, e.sample_a)
                  /\ rows[i].count_y = Occurrences(rows[i].category, e.sample_b)

\* a table with a category only A has and a category only B has
C1_Witness ==
    \E k \in DOMAIN gvc_log :
        LET e == gvc_log[k]
        IN  /\ \E i \in DOMAIN e.rows :
                   e.rows[i].count_x = 2 /\ e.rows[i].count_y = 0
            /\ \E i \in DOMAIN e.rows :
                   e.rows[i].count_x = 0 /\ e.rows[i].count_y > 0

\* C2: when one sample is empty and the other is not, every count of the empty
\* sample is 0 and every proportion of the empty sample is a defined value,
\* never the undefined 0/0.
C2_EmptySampleHasDefinedProportions ==
    \A k \in DOMAIN gvc_log :
        LET e == gvc_log[k]
        IN  /\ (e.sample_a = <<>> /\ e.sample_b # <<>>) =>
                  \A i \in DOMAIN e.rows :
                      e.rows[i].count_x = 0 /\ ~IsNaN(e.rows[i].proportion_x)
            /\ (e.sample_b = <<>> /\ e.sample_a # <<>>) =>
                  \A i \in DOMAIN e.rows :
                      e.rows[i].count_y = 0 /\ ~IsNaN(e.rows[i].proportion_y)

\* C4: for non-empty A and B the proportion_x of the rows sum to 1 and so do
\* the proportion_y; each proportion is the row's count over the number of
\* elements of its sample.
C4_ProportionsSumToOne ==
    \A k \in DOMAIN gvc_log :
        LET e == gvc_log[k]
            rows == e.rows
        IN  (e.sample_a # <<>> /\ e.sample_b # <<>>) =>
                /\ SameQuotient(QuotientSum(Column(rows, "proportion_x")),
                                [n |-> 1, d |-> 1])
                /\ SameQuotient(QuotientSum(Column(rows, "proportion_y")),
                                [n |-> 1, d |-> 1])
                /\ \A i \in DOMAIN rows :
                      /\ SameQuotient(rows[i].proportion_x,
                                      [n |-> rows[i].count_x, d |-> Len(e.sample_a)])
                      /\ SameQuotient(rows[i].proportion_y,
                                      [n |-> rows[i].count_y, d |-> Len(e.sample_b)])

\* a table of two rows whose proportions are proper fractions on both sides
C4_Witness ==
    \E k \in DOMAIN gvc_log :
        LET rows == gvc_log[k].rows
        IN  /\ Len(rows) = 2
            /\ \A i \in DOMAIN rows : rows[i].count_x > 0 /\ rows[i].count_y > 0
            /\ Len(gvc_log[k].sample_a) # Len(gvc_log[k].sample_b)

\* C9: count_x and proportion_x of every category of A are the same whatever
\* the other sample is, and count_y and proportion_y of every category of B
\* are the same whatever the first sample is.
C9_IndependentNormalisation ==
    \A k \in DOMAIN gvc_log :
        LET e == gvc_log[k]
        IN  \A other \in Samples :
                LET with_b == GetValueCounts(e.sample_a, other)
                    with_a == GetValueCounts(other, e.sample_b)
                IN  \A i \in DOMAIN e.rows :
                        /\ e.rows[i].category \in Range(e.sample_a) =>
                              \E j \in DOMAIN with_b :
                                  /\ with_b[j].category = e.rows[i].category
                                  /\ with_b[j].count_x = e.rows[i].count_x
                                  /\ SameQuotient(with_b[j].proportion_x,
                                                  e.rows[i].proportion_x)
                        /\ e.rows[i].category \in Range(e.sample_b) =>
                              \E j \in DOMAIN with_a :
                                  /\ with_a[j].category = e.rows[i].category
                                  /\ with_a[j].count_y = e.rows[i].count_y
                                  /\ SameQuotient(with_a[j].proportion_y,
                                                  e.rows[i].proportion_y)

\* a table of two samples of different sizes that share a category
C9_Witness ==
    \E k \in DOMAIN gvc_log :
        LET e == gvc_log[k]
        IN  /\ Len(e.sample_a) = 2 /\ Len(e.sample_b) = 3
            /\ \E i \in DOMAIN e.rows :
                   e.rows[i].count_x = 1 /\ e.rows[i].count_y = 1

----------------------------------------------------------------------------
(* Properties of distribution_plots, checked under Spec *)

BarsOf(ax, c) == SelectSeq(ax.bars, LAMBDA b : b.container = c)

\* h tenths of a percent is n/d as a percentage rounded to one decimal
IsRoundedPercent(h, p) ==
    IF p.d = 0 THEN h = NaN
    ELSE /\ 2 * Abs(1000 * p.n - h * p.d) <= p.d
         /\ 2 * Abs(1000 * p.n - h * p.d) = p.d => h % 2 = 0

\* C8: both panels are drawn from the one table of the two samples: panel 1
\* has the heights count_x and count_y, panel 2 the heights
\* round(proportion * 100, 1); both have the categories of the table as tick
\* labels, in the table's order, and the legend labels sample_a_label and
\* sample_b_label; the table still holds the unrounded proportions.
C8_TwoPanelsFromOneTable ==
    dp_result.status # "none" =>
        LET vc == dp_result.value_counts
            counts == dp_result.panels[1]
            pct == dp_result.panels[2]
            labels == <<Some(dp_args.sample_a_label), Some(dp_args.sample_b_label)>>
        IN  /\ dp_result.status = "ok"
            /\ Len(dp_result.panels) = 2
            /\ \A i \in DOMAIN vc :
                  /\ vc[i].count_x = Occurrences(vc[i].category, sample_a)
                  /\ vc[i].count_y = Occurrences(vc[i].category, sample_b)
                  /\ vc[i].proportion_x = [n |-> vc[i].count_x, d |-> Len(sample_a)]
                  /\ vc[i].proportion_y = [n |-> vc[i].count_y, d |-> Len(sample_b)]
            /\ Len(counts.bars) = 2 * Len(vc) /\ Len(pct.bars) = 2 * Len(vc)
            /\ \A i \in DOMAIN vc :
                  /\ BarsOf(counts, 1)[i].height = vc[i].count_x
                  /\ BarsOf(counts, 2)[i].height = vc[i].count_y
                  /\ IsRoundedPercent(BarsOf(pct, 1)[i].height, vc[i].proportion_x)
                  /\ IsRoundedPercent(BarsOf(pct, 2)[i].height, vc[i].proportion_y)
            /\ counts.xticklabels = Column(vc, "category")
            /\ pct.xticklabels = Column(vc, "category")
            /\ Column(counts.containers, "label") = labels
            /\ Column(pct.containers, "label") = labels
            /\ counts.legend = pct.legend

\* a figure whose percentages are really rounded: a third and two thirds
C8_Witness ==
    /\ dp_result.status = "ok"
    /\ \E i \in DOMAIN dp_result.value_counts :
           /\ dp_result.value_counts[i].proportion_x = [n |-> 1, d |-> 3]
           /\ BarsOf(dp_result.panels[2], 1)[i].height = 333
    /\ \E i \in DOMAIN dp_result.value_counts :
           dp_result.value_counts[i].proportion_y = [n |-> 2, d |-> 3]

----------------------------------------------------------------------------
(* Properties of side_by_side_bar_plot, checked under SpecPlot *)

Called == bp_result.status # "none"
N == Len(bp_args.x_vals)
NonEmpty(label) == label \notin {None, Some("")}

\* C3: a call whose y_vals_left or y_vals_right has another length than x_vals
\* fails and draws no bar.
C3_LengthMismatchFails ==
    (Called /\ (Len(bp_args.y_vals_left) # N \/ Len(bp_args.y_vals_right) # N)) =>
        bp_result.status = "error" /\ bp_result.ax.bars = <<>>

\* C5: with N labels and N heights on each side the call draws 2N bars: for
\* index i a left bar of height y_vals_left[i] centred at i - (bar_width+gap)/2
\* and a right bar of height y_vals_right[i] centred at i + (bar_width+gap)/2,
\* both of width bar_width; the tick at position i carries x_vals[i].
C5_TwoBarsPerCategory ==
    (Called /\ Len(bp_args.y_vals_left) = N /\ Len(bp_args.y_vals_right) = N) =>
        LET ax == bp_result.ax
            half == bp_args.bar_width + bp_args.gap
        IN  /\ bp_result.status = "ok"
            /\ Len(ax.bars) = 2 * N
            /\ \A i \in 1..N :
                  /\ ax.bars[i] = [x |-> 200 * (i - 1) - half,
                                   height |-> bp_args.y_vals_left[i],
                                   width |-> bp_args.bar_width,
                                   container |-> 1]
                  /\ ax.bars[N + i] = [x |-> 200 * (i - 1) + half,
                                       height |-> bp_args.y_vals_right[i],
                                       width |-> bp_args.bar_width,
                                       container |-> 2]
                  /\ ax.xticks[i] = i - 1
                  /\ ax.xticklabels[i] = bp_args.x_vals[i]
            /\ Len(ax.xticks) = N /\ Len(ax.xticklabels) = N

\* three categories drawn with a gap between the bars of a pair
C5_Witness ==
    /\ bp_result.status = "ok"
    /\ N = 3 /\ Len(bp_args.y_vals_left) = 3 /\ Len(bp_args.y_vals_right) = 3
    /\ bp_args.gap > 0
    /\ Len(bp_result.ax.bars) = 6

\* C6: a call that returns has a legend exactly when one of the two legend
\* labels is a non-empty string, and the legend then shows every non-empty
\* label that was given.
C6_LegendIffLabelled ==
    bp_result.status = "ok" =>
        LET left == bp_args.y_vals_left_legend_label
            right == bp_args.y_vals_right_legend_label
            legend == bp_result.ax.legend
        IN  /\ (legend # None) <=> (NonEmpty(left) \/ NonEmpty(right))
            /\ legend # None =>
                  /\ NonEmpty(left) => left[1] \in Range(legend[1])
                  /\ NonEmpty(right) => right[1] \in Range(legend[1])
                  /\ Range(legend[1]) \subseteq
                         {l[1] : l \in {m \in {left, right} : NonEmpty(m)}}

\* only the left series is named and the legend shows it alone
C6_Witness ==
    /\ bp_result.status = "ok"
    /\ bp_args.y_vals_left_legend_label = Some("A")
    /\ bp_args.y_vals_right_legend_label = Some("")
    /\ bp_result.ax.legend = Some(<<"A">>)

\* C7 as stated: without a surface the call creates its own figure and
\* displays it; with a surface it draws there and creates and displays none.
C7_StandaloneFigureIsDisplayed ==
    Called =>
        IF bp_args.ax = None
        THEN /\ bp_result.created = 1
             /\ bp_result.ax.figure = "side_by_side_bar_plot"
             /\ bp_result.shown = 1
        ELSE /\ bp_result.created = 0
             /\ bp_result.ax.figure = "caller"
             /\ bp_result.shown = 0

\* C7 as amended: without a surface the call creates its own figure and draws
\* on it; with a surface it draws there and creates no figure; in neither mode
\* does the call display a figure.
C7_SurfaceSelectsFigure ==
    Called =>
        /\ bp_result.shown = 0
        /\ num_shown = 0
        /\ IF bp_args.ax = None
           THEN /\ bp_result.created = 1
                /\ bp_result.ax.figure = "side_by_side_bar_plot"
           ELSE /\ bp_result.created = 0
                /\ bp_result.ax.figure = "caller"
        /\ bp_result.status = "ok" => Len(bp_result.ax.containers) = 2

\* a standalone call that drew its bars on a figure of its own
C7_Witness ==
    /\ bp_result.status = "ok"
    /\ bp_args.ax = None
    /\ bp_result.created = 1
    /\ num_figures = 1
    /\ Len(bp_result.ax.bars) = 4

====
